---- MODULE Spec2Model ----
(***************************************************************************)
(* A model of deliveroo_server.py: the fetch-retry-extract helper          *)
(* _get_next_data and the two tools built on it, search_restaurants and    *)
(* get_restaurant_menu.  Python values are tagged records, an evaluation   *)
(* that may raise yields Ok(v) or Raise(exception class), and a try/except *)
(* is a test of the raised class against the handler's classes.            *)
(* Durations are in seconds, except politeDelay, in tenths of a second.    *)
(* Ratings are in tenths (4.5 is 45).                                      *)
(***************************************************************************)
EXTENDS Integers, Sequences, FiniteSets, TLC

VARIABLES pc, tool, min_rating, attempt, responses, sleeps, delay,
          json_data, output, calls, open_sessions

vars == <<pc, tool, min_rating, attempt, responses, sleeps, delay,
          json_data, output, calls, open_sessions>>

-----------------------------------------------------------------------------
(* Bounds of the model *)

MaxCalls == 2
MaxItems == 3
MaxBlocks == 1

-----------------------------------------------------------------------------
(* Python values *)

None == [t |-> "NoneType"]
Num(n) == [t |-> "num", v |-> n]
Str(s) == [t |-> "str", v |-> s]
List(s) == [t |-> "list", v |-> s]
Dict(f) == [t |-> "dict", v |-> f]

EmptyMap == [k \in {} |-> None]
EmptyDict == Dict(EmptyMap)
EmptyList == List(<<>>)

Ok(v) == [ok |-> TRUE, v |-> v]
Raise(e) == [ok |-> FALSE, exc |-> e]

\* r, then K on its value unless r raised
Bind(r, K(_)) == IF r.ok THEN K(r.v) ELSE r

\* bool(x)
truthy(x) ==
    CASE x.t = "NoneType" -> FALSE
      [] x.t = "num" -> x.v # 0
      [] x.t = "str" -> x.v # ""
      [] x.t = "list" -> Len(x.v) > 0
      [] x.t = "dict" -> DOMAIN x.v # {}

\* hash(x) succeeds
hashable(x) == x.t \notin {"list", "dict"}

\* the classes an exception class is an instance of
Bases(e) ==
    CASE e = "KeyError" -> {"KeyError", "LookupError", "Exception"}
      [] e = "IndexError" -> {"IndexError", "LookupError", "Exception"}
      [] e = "JSONDecodeError" -> {"JSONDecodeError", "ValueError", "Exception"}
      [] e = "ValueError" -> {"ValueError", "Exception"}
      [] e = "TypeError" -> {"TypeError", "Exception"}
      [] e = "AttributeError" -> {"AttributeError", "Exception"}
      [] e = "RequestException" -> {"RequestException", "OSError", "Exception"}

\* except <classes>: matches the raised exception
Catches(classes, e) == Bases(e) \cap classes # {}

\* try: r, except <classes>: handled
Rescue(r, classes, handled) ==
    IF r.ok THEN r ELSE IF Catches(classes, r.exc) THEN handled ELSE r

\* x.get(k, d)
get(x, k, d) ==
    IF x.t = "dict"
    THEN Ok(IF k \in DOMAIN x.v THEN x.v[k] ELSE d)
    ELSE Raise("AttributeError")

\* x[k] for a string key k
getitem(x, k) ==
    IF x.t = "dict"
    THEN (IF k \in DOMAIN x.v THEN Ok(x.v[k]) ELSE Raise("KeyError"))
    ELSE Raise("TypeError")

\* the characters of the strings that the model iterates over
Chars(s) ==
    CASE s = "" -> <<>>
      [] s = "x" -> <<"x">>
      [] s = "0" -> <<"0">>
      [] OTHER -> <<"?">>

RECURSIVE SetToSeq(_)
SetToSeq(S) ==
    IF S = {} THEN <<>>
    ELSE LET x == CHOOSE y \in S : TRUE IN <<x>> \o SetToSeq(S \ {x})

\* iter(x): the sequence a for loop runs over
iter(x) ==
    CASE x.t = "list" -> Ok(x.v)
      [] x.t = "dict" -> Ok([i \in 1..Cardinality(DOMAIN x.v) |->
                                Str(SetToSeq(DOMAIN x.v)[i])])
      [] x.t = "str" -> Ok([i \in 1..Len(Chars(x.v)) |-> Str(Chars(x.v)[i])])
      [] OTHER -> Raise("TypeError")

-----------------------------------------------------------------------------
(* _get_next_data *)

\* a budget of one attempt more
max_retries_one_more == 3 + 1

\* line 26
max_retries == 3

\* response.text of a 200 response, as BeautifulSoup sees it: whether the
\* script element with id __NEXT_DATA__ is there, and its text
NoTagPage == [tag |-> FALSE, string |-> None]
EmptyTagPage == [tag |-> TRUE, string |-> None]
GarbagePage == [tag |-> TRUE, string |-> [t |-> "str", json |-> FALSE, doc |-> None]]
JsonPage(d) == [tag |-> TRUE, string |-> [t |-> "str", json |-> TRUE, doc |-> d]]

\* script_tag and script_tag.string: falsy when soup.find returns None or
\* the element has no text
script_text(page) == IF page.tag THEN page.string ELSE None

\* json.loads(text); the JSON text null decodes to None
json_loads(text) ==
    IF text.json THEN Ok(text.doc) ELSE Raise("JSONDecodeError")

\* lines 33-37: what a 200 response does inside the try block
on_200(page) ==
    IF script_text(page).t # "NoneType"
    THEN json_loads(script_text(page))
    ELSE Ok(None)

-----------------------------------------------------------------------------
(* search_restaurants *)

PATH_FEED == <<"props", "initialState", "home", "feed", "results", "data">>

\* line 76: the chain of .get(key, {}) ending in .get('data', [])
RECURSIVE get_chain(_, _)
get_chain(x, keys) ==
    IF keys = <<>> THEN Ok(x)
    ELSE Bind(get(x, Head(keys), IF Len(keys) = 1 THEN EmptyList ELSE EmptyDict),
              LAMBDA v : get_chain(v, Tail(keys)))

\* 'partner-card' in x
contains_partner_card(x) ==
    CASE x.t = "str" -> Ok(x.v \in {"partner-card", "partner-card-large"})
      [] x.t = "list" -> Ok(\E i \in 1..Len(x.v) : x.v[i] = Str("partner-card"))
      [] x.t = "dict" -> Ok("partner-card" \in DOMAIN x.v)
      [] OTHER -> Raise("TypeError")

\* raw_rating.split(' '), AttributeError on a value that is no str
split(raw_rating) ==
    IF raw_rating.t # "str" THEN Raise("AttributeError")
    ELSE Ok(CASE raw_rating.v = "4.5 su 5" -> <<"4.5", "su", "5">>
              [] raw_rating.v = "3.9 (500+)" -> <<"3.9", "(500+)">>
              [] raw_rating.v = "Nuovo su Deliveroo" -> <<"Nuovo", "su", "Deliveroo">>
              [] OTHER -> <<raw_rating.v>>)

\* tokens[0]
first(tokens) == IF Len(tokens) = 0 THEN Raise("IndexError") ELSE Ok(tokens[1])

\* float(token), in tenths
float(tok) ==
    CASE tok = "4.5" -> Ok(45)
      [] tok = "3.9" -> Ok(39)
      [] tok = "0" -> Ok(0)
      [] OTHER -> Raise("ValueError")

\* line 91: except (ValueError, IndexError)
rating_handler == {"ValueError", "IndexError"}

\* lines 89-92
parse_rating(raw_rating) ==
    Rescue(Bind(split(raw_rating),
                LAMBDA tokens : Bind(first(tokens), LAMBDA tok : float(tok))),
           rating_handler, Ok(0))

\* lines 101-103
restaurant_href(data) ==
    Bind(get(data, "partner-card.on-tap", EmptyDict), LAMBDA on_tap :
    Bind(get(on_tap, "action", EmptyDict), LAMBDA action :
    Bind(get(action, "parameters", EmptyDict), LAMBDA action_params :
    get(action_params, "restaurant_href", None))))

\* lines 107-112
restaurant_record(name, rating_val, dist, href_partial) ==
    [name |-> name, rating |-> rating_val, distance |-> dist,
     menu_url |-> <<"https://deliveroo.it", href_partial>>]

\* lines 81-112: the records one block appends to results (none or one)
process_block(block, minr) ==
    Bind(get(block, "rooTemplateId", Str("")), LAMBDA tid :
    Bind(contains_partner_card(tid), LAMBDA is_card :
    IF ~is_card THEN Ok(<<>>) ELSE
    Bind(get(block, "data", EmptyDict), LAMBDA data :
    Bind(get(data, "partner-name.content", Str("Unknown")), LAMBDA name :
    Bind(get(data, "partner-rating.content", Str("0")), LAMBDA raw_rating :
    Bind(parse_rating(raw_rating), LAMBDA rating_val :
    IF rating_val < minr THEN Ok(<<>>) ELSE
    Bind(get(data, "distance-presentational.content", Str("-")), LAMBDA dist :
    Bind(restaurant_href(data), LAMBDA href_partial :
    IF ~truthy(href_partial) THEN Ok(<<>>)
    ELSE Ok(<<restaurant_record(name, rating_val, dist, href_partial)>>)))))))))

\* lines 80-112: the inner loop over a section's blocks
RECURSIVE process_blocks(_, _)
process_blocks(blocks, minr) ==
    IF blocks = <<>> THEN Ok(<<>>)
    ELSE Bind(process_block(Head(blocks), minr), LAMBDA found :
         Bind(process_blocks(Tail(blocks), minr), LAMBDA rest :
         Ok(found \o rest)))

\* lines 78-112: the outer loop over the feed's sections
RECURSIVE process_sections(_, _)
process_sections(sections, minr) ==
    IF sections = <<>> THEN Ok(<<>>)
    ELSE Bind(get(Head(sections), "blocks", EmptyList), LAMBDA blocks :
         Bind(iter(blocks), LAMBDA bs :
         Bind(process_blocks(bs, minr), LAMBDA found :
         Bind(process_sections(Tail(sections), minr), LAMBDA rest :
         Ok(found \o rest)))))

\* lines 76-112: the body of the try block
collect_results(doc, minr) ==
    Bind(get_chain(doc, PATH_FEED), LAMBDA feed :
    Bind(iter(feed), LAMBDA sections :
    process_sections(sections, minr)))

\* what a tool hands back: a str (a message or serialized JSON), or an
\* exception that leaves the tool
Message(text, detail) == [type |-> "str", form |-> "message", text |-> text,
                          detail |-> detail]
Serialized(value) == [type |-> "str", form |-> "json", text |-> "", detail |-> value]
Escapes(e) == [type |-> "exception", form |-> "raise", text |-> "", detail |-> e]
NoOutput == [type |-> "none", form |-> "", text |-> "", detail |-> ""]

MSG_FETCH == "Error: Could not fetch data from Deliveroo. Check the URL."
MSG_PARSE == "Error parsing data: "
MSG_EMPTY == "No restaurants found. The page structure might have changed or the location is empty."

\* line 114: except Exception
search_handler == {"Exception"}

\* lines 114-121: what the tool returns once the try block has ended in r
search_return(r) ==
    IF ~r.ok
    THEN (IF Catches(search_handler, r.exc) THEN Message(MSG_PARSE, r.exc)
          ELSE Escapes(r.exc))
    ELSE IF r.v = <<>> THEN Message(MSG_EMPTY, "")
    ELSE Serialized(r.v)

\* lines 69-121: search_restaurants after _get_next_data has returned
search_restaurants(doc, minr) ==
    IF ~truthy(doc) THEN Message(MSG_FETCH, "")
    ELSE search_return(collect_results(doc, minr))

-----------------------------------------------------------------------------
(* get_restaurant_menu *)

PATH_MENU == <<"props", "initialState", "menuPage", "menu", "metas", "root">>

\* lines 144-145: the chain of subscripts json_data['props']...['root']
RECURSIVE getitem_chain(_, _)
getitem_chain(x, keys) ==
    IF keys = <<>> THEN Ok(x)
    ELSE Bind(getitem(x, Head(keys)), LAMBDA v : getitem_chain(v, Tail(keys)))

\* d[k] = v on a dict kept as a function from keys to values
setitem(d, k, v) == [x \in DOMAIN d \cup {k} |-> IF x = k THEN v ELSE d[x]]

\* hash(x), TypeError on a list or a dict
hash(x) == IF hashable(x) THEN Ok(x) ELSE Raise("TypeError")

\* line 151: {cat['id']: cat['name'] for cat in raw_categories}
RECURSIVE build_category_map(_, _)
build_category_map(cats, acc) ==
    IF cats = <<>> THEN Ok(acc)
    ELSE Bind(getitem(Head(cats), "id"), LAMBDA id :
         Bind(getitem(Head(cats), "name"), LAMBDA name :
         Bind(hash(id), LAMBDA key :
         build_category_map(Tail(cats), setitem(acc, key, name)))))

\* line 158: category_map.get(cat_id, "Other")
category_name(category_map, cat_id) ==
    Bind(hash(cat_id), LAMBDA key :
    Ok(IF key \in DOMAIN category_map THEN category_map[key] ELSE Str("Other")))

\* line 166: item.get('price', {}).get('formatted', '?')
item_price(item) ==
    Bind(get(item, "price", EmptyDict), LAMBDA price :
    get(price, "formatted", Str("?")))

\* lines 163-167: the record appended for an item
menu_record(item) ==
    Bind(get(item, "name", None), LAMBDA name :
    Bind(get(item, "description", None), LAMBDA description :
    Bind(item_price(item), LAMBDA price :
    Ok([item |-> name, description |-> description, price |-> price]))))

\* a grouping that puts a new bucket in front of the others
append_to_bucket_in_front(organized_menu, cat_name, record) ==
    IF \E i \in 1..Len(organized_menu) : organized_menu[i].name = cat_name
    THEN [i \in 1..Len(organized_menu) |->
            IF organized_menu[i].name = cat_name
            THEN [organized_menu[i] EXCEPT !.items = Append(@, record)]
            ELSE organized_menu[i]]
    ELSE <<[name |-> cat_name, items |-> <<record>>]>> \o organized_menu

\* lines 160-163 on organized_menu, a dict in insertion order kept as the
\* sequence of its (key, list) entries
append_to_bucket(organized_menu, cat_name, record) ==
    IF \E i \in 1..Len(organized_menu) : organized_menu[i].name = cat_name
    THEN [i \in 1..Len(organized_menu) |->
            IF organized_menu[i].name = cat_name
            THEN [organized_menu[i] EXCEPT !.items = Append(@, record)]
            ELSE organized_menu[i]]
    ELSE Append(organized_menu, [name |-> cat_name, items |-> <<record>>])

\* lines 156-167: the loop over raw_items
RECURSIVE organize(_, _, _)
organize(items, category_map, organized_menu) ==
    IF items = <<>> THEN Ok(organized_menu)
    ELSE Bind(get(Head(items), "categoryId", None), LAMBDA cat_id :
         Bind(category_name(category_map, cat_id), LAMBDA cat_name :
         Bind(hash(cat_name), LAMBDA bucket :
         Bind(menu_record(Head(items)), LAMBDA record :
         organize(Tail(items), category_map,
                  append_to_bucket(organized_menu, bucket, record))))))

\* lines 144-169: the body of the try block
organize_menu(doc) ==
    Bind(getitem_chain(doc, PATH_MENU), LAMBDA root_data :
    Bind(get(root_data, "items", EmptyList), LAMBDA raw_items :
    Bind(get(root_data, "categories", EmptyList), LAMBDA raw_categories :
    Bind(iter(raw_categories), LAMBDA cats :
    Bind(build_category_map(cats, EmptyMap), LAMBDA category_map :
    Bind(iter(raw_items), LAMBDA items :
    organize(items, category_map, <<>>)))))))

MSG_LOAD == "Error: Could not load menu."
MSG_STRUCTURE == "Error: Menu structure not found (Restaurant might be closed or page changed)."
MSG_PARSE_MENU == "Error parsing menu: "

\* line 176: json.dumps(menu_content, ...), which raises TypeError on a key
\* that is not a str, a number, a bool or None
json_dumps_menu(organized_menu) ==
    IF \A i \in 1..Len(organized_menu) :
           organized_menu[i].name.t \in {"str", "num", "NoneType"}
    THEN Serialized(organized_menu)
    ELSE Escapes("TypeError")

\* a last handler for the lookup errors alone
menu_handler_lookup_only == {"LookupError"}

\* lines 171 and 173: except KeyError, then except Exception
menu_handler_structure == {"KeyError"}

menu_handler_other == {"Exception"}

\* lines 171-176: what the tool returns once the try block has ended in r
menu_return(r) ==
    IF r.ok THEN json_dumps_menu(r.v)
    ELSE IF Catches(menu_handler_structure, r.exc) THEN Message(MSG_STRUCTURE, "")
    ELSE IF Catches(menu_handler_other, r.exc) THEN Message(MSG_PARSE_MENU, r.exc)
    ELSE Escapes(r.exc)

\* lines 138-176: get_restaurant_menu after _get_next_data has returned
get_restaurant_menu(doc) ==
    IF ~truthy(doc) THEN Message(MSG_LOAD, "")
    ELSE menu_return(organize_menu(doc))

-----------------------------------------------------------------------------
(* The pages a server may answer with *)

\* the sequences over S of length at most n
RECURSIVE SeqsUpTo(_, _)
SeqsUpTo(S, n) ==
    IF n = 0 THEN {<<>>}
    ELSE LET shorter == SeqsUpTo(S, n - 1)
         IN shorter \cup {Append(q, x) : q \in shorter, x \in S}

\* the nested objects {keys[1]: {keys[2]: ... leaf}}
RECURSIVE Wrap(_, _)
Wrap(keys, leaf) ==
    IF keys = <<>> THEN leaf ELSE Dict(Head(keys) :> Wrap(Tail(keys), leaf))

Leaves == {None, Num(0), Num(1), Str(""), Str("x"), EmptyList, List(<<Str("x")>>),
           EmptyDict, Dict("other" :> Num(1))}

\* documents that follow a path for its first k keys and then hold a leaf
PathDocs(path) ==
    {Wrap(SubSeq(path, 1, k), leaf) : k \in 0..Len(path), leaf \in Leaves}

OnTap(params) == Dict("action" :> Dict("parameters" :> params))
Href == Dict("restaurant_href" :> Str("/menu/123"))

CardData(rating, on_tap) ==
    Dict(("partner-name.content" :> Str("Pizzeria Roma"))
         @@ ("partner-rating.content" :> rating)
         @@ ("distance-presentational.content" :> Str("1.2 km"))
         @@ ("partner-card.on-tap" :> on_tap))

Card(tid, data) == Dict(("rooTemplateId" :> tid) @@ ("data" :> data))

Blocks ==
    { Card(Str("partner-card-large"), CardData(Str("4.5 su 5"), OnTap(Href))),
      Card(Str("partner-card"), CardData(Str("3.9 (500+)"), OnTap(Href))),
      Card(Str("partner-card"), CardData(Str("Nuovo su Deliveroo"), OnTap(Href))),
      Card(Str("partner-card"), CardData(Str(""), OnTap(Href))),
      Card(Str("partner-card"), CardData(Num(4), OnTap(Href))),
      Card(Str("partner-card"), CardData(Str("4.5 su 5"), OnTap(EmptyDict))),
      Card(Str("partner-card"), CardData(Str("4.5 su 5"), None)),
      Card(Str("partner-card"), None),
      Card(Str("banner"), CardData(Str("4.5 su 5"), OnTap(Href))),
      Card(None, CardData(Str("4.5 su 5"), OnTap(Href))),
      Card(List(<<Str("partner-card")>>), EmptyDict),
      Dict("data" :> CardData(Str("4.5 su 5"), OnTap(Href))),
      Dict("rooTemplateId" :> Str("partner-card-large")),
      Str("x") }

Sections ==
    {Dict("blocks" :> List(bs)) : bs \in SeqsUpTo(Blocks, MaxBlocks)}
    \cup {None, Str("x"), EmptyDict, Dict("blocks" :> None),
          Dict("blocks" :> Str("x")), Dict("blocks" :> Dict("x" :> Num(1)))}

FeedDocs == {Wrap(PATH_FEED, List(<<sec>>)) : sec \in Sections}

Price == Dict("formatted" :> Str("6.50"))

Item(name, fields) == Dict(("name" :> Str(name)) @@ fields)

Items ==
    { Item("Margherita", ("categoryId" :> Num(1)) @@ ("price" :> Price)),
      Item("Cola", ("categoryId" :> Num(2)) @@ ("price" :> Price)),
      Item("Tiramisu", "categoryId" :> Num(9)),
      Item("Coperto", "price" :> EmptyDict),
      Item("Capricciosa", ("categoryId" :> Num(1))
                          @@ ("price" :> Dict("formatted" :> None))),
      Item("Acqua", ("categoryId" :> Num(2)) @@ ("price" :> None)) }

Category(id, name) == Dict(("id" :> id) @@ ("name" :> name))

CategoryLists ==
    { <<Category(Num(1), Str("Pizze")), Category(Num(2), Str("Bibite"))>>,
      <<Category(Num(1), Str("Pizze")), Category(None, Str("Varie"))>>,
      <<Category(Num(1), Str("Bibite")), Category(Num(1), Str("Pizze")),
        Category(Num(2), Str("Other"))>>,
      <<Category(Num(1), Str("Pizze")), Dict("id" :> Num(2))>>,
      <<Category(Num(1), EmptyList), Category(Num(2), Num(7))>>,
      <<Category(EmptyList, Str("Pizze"))>> }

MenuRoots ==
    {Dict(("items" :> List(is)) @@ ("categories" :> List(cs))) :
        is \in SeqsUpTo(Items, MaxItems), cs \in CategoryLists}
    \cup {Dict("items" :> List(is)) : is \in SeqsUpTo(Items, MaxItems)}
    \cup {Dict(("items" :> Str("x")) @@ ("categories" :> None))}

MenuDocs == {Wrap(PATH_MENU, root) : root \in MenuRoots}

\* the documents a listing URL, and a menu URL, may be answered with
ListingDocs == PathDocs(PATH_FEED) \cup PathDocs(PATH_MENU) \cup FeedDocs
RestaurantDocs == PathDocs(PATH_FEED) \cup PathDocs(PATH_MENU) \cup MenuDocs

PagesOf(docs) == {NoTagPage, EmptyTagPage, GarbagePage} \cup {JsonPage(d) : d \in docs}
ListingPages == PagesOf(ListingDocs)
RestaurantPages == PagesOf(RestaurantDocs)

Pages(t) == IF t = "search_restaurants" THEN ListingPages ELSE RestaurantPages

\* the statuses a server answers with besides 200 and 429
OtherStatuses == {403, 404, 500}

\* the values a caller passes as min_rating, in tenths
MinRatings == {0, 40}

-----------------------------------------------------------------------------
(* The calls *)

POLITE_DELAY == 15

\* a backoff counted from the attempt index itself
wait_time_from_zero(i) == i * 5

\* line 40
wait_time(i) == (i + 1) * 5

\* a policy that retries on every status but 200
status_policy_retry_any(status) ==
    IF status = 200 THEN "extract" ELSE "retry"

\* lines 32-44: what _get_next_data does with a response's status
status_policy(status) ==
    IF status = 200 THEN "extract"
    ELSE IF status = 429 THEN "retry"
    ELSE "fail"

\* line 46: except Exception
fetch_handler == {"Exception"}

tool_result(t, doc, minr) ==
    IF t = "search_restaurants" THEN search_restaurants(doc, minr)
    ELSE get_restaurant_menu(doc)

Init ==
    /\ pc = "idle"
    /\ tool = ""
    /\ min_rating = 0
    /\ attempt = 0
    /\ responses = <<>>
    /\ sleeps = <<>>
    /\ delay = 0
    /\ json_data = None
    /\ output = NoOutput
    /\ calls = 0
    /\ open_sessions = 0

\* lines 25-26 at the start of a tool: requests.Session() and the loop's start
Enter(t, minr, d) ==
    /\ pc \in {"idle", "done"}
    /\ calls < MaxCalls
    /\ pc' = "fetch"
    /\ tool' = t
    /\ min_rating' = minr
    /\ delay' = d
    /\ attempt' = 0
    /\ responses' = <<>>
    /\ sleeps' = <<>>
    /\ json_data' = None
    /\ output' = NoOutput
    /\ calls' = calls + 1
    /\ open_sessions' = open_sessions + 1

\* lines 66-67
CallSearch == \E minr \in MinRatings : Enter("search_restaurants", minr, 0)

\* lines 135-137
CallMenu == Enter("get_restaurant_menu", 0, POLITE_DELAY)

\* where one turn of the loop leaves _get_next_data: at a return, at a
\* time.sleep before the next turn, or at an exception no handler caught
Returns(doc) == [do |-> "return", value |-> doc, seconds |-> 0, exc |-> ""]
Sleeps(seconds) == [do |-> "sleep", value |-> None, seconds |-> seconds, exc |-> ""]
Raises(e) == [do |-> "raise", value |-> None, seconds |-> 0, exc |-> e]

\* lines 29-48: the try statement, r being what the try block came to (a
\* value to return, Ok("continue"), or an exception)
try_except(r) ==
    IF ~r.ok
    THEN (IF Catches(fetch_handler, r.exc) THEN Sleeps(2) ELSE Raises(r.exc))
    ELSE r.v

\* lines 30-44: the try block on a response
on_response(status, page, i) ==
    IF status_policy(status) = "extract"
    THEN Bind(on_200(page), LAMBDA doc : Ok(Returns(doc)))
    ELSE IF status_policy(status) = "retry"
    THEN Ok(Sleeps(wait_time(i)))
    ELSE Ok(Returns(None))

InLoop == pc = "fetch" /\ attempt < max_retries

\* the rest of the call after a turn of the loop: the sleep and the next
\* turn, or the return (line 50 after the last turn) and the tool's own
\* code down to its return
Continue(turn) ==
    /\ sleeps' = IF turn.do = "sleep" THEN Append(sleeps, turn.seconds) ELSE sleeps
    /\ attempt' = IF turn.do = "sleep" THEN attempt + 1 ELSE attempt
    /\ IF turn.do = "sleep" /\ attempt + 1 < max_retries
       THEN UNCHANGED <<pc, json_data, output>>
       ELSE /\ pc' = "done"
            /\ json_data' = turn.value
            /\ output' = IF turn.do = "raise" THEN Escapes(turn.exc)
                         ELSE tool_result(tool, turn.value, min_rating)
    /\ UNCHANGED <<tool, min_rating, delay, calls, open_sessions>>

\* what session.get came to: a response (its status and, for a 200, its
\* page) or, with status 0, an exception
Received(status, page) == [status |-> status, page |-> page]

\* lines 30-37: session.get answers 200
Response200 ==
    /\ InLoop
    /\ \E page \in Pages(tool) :
        /\ responses' = Append(responses, Received(200, page))
        /\ Continue(try_except(on_response(200, page, attempt)))

\* lines 30, 39-44: session.get answers another status
ResponseNot200 ==
    /\ InLoop
    /\ \E status \in OtherStatuses \cup {429} :
        /\ responses' = Append(responses, Received(status, NoTagPage))
        /\ Continue(try_except(on_response(status, NoTagPage, attempt)))

\* lines 30, 46-48: session.get raises
RequestFails ==
    /\ InLoop
    /\ responses' = Append(responses, Received(0, NoTagPage))
    /\ Continue(try_except(Raise("RequestException")))

Next == CallSearch \/ CallMenu \/ Response200 \/ ResponseNot200 \/ RequestFails

Spec == Init /\ [][Next]_vars

-----------------------------------------------------------------------------
(* Properties *)

Statuses == [i \in 1..Len(responses) |-> responses[i].status]

LastResponse == responses[Len(responses)]

\* the call has ended on a 200 response whose script element holds JSON text
EndedOnJson ==
    /\ pc = "done"
    /\ Len(responses) > 0
    /\ LastResponse.status = 200
    /\ LastResponse.page.tag
    /\ LastResponse.page.string.t = "str"
    /\ LastResponse.page.string.json

\* the document that JSON text stands for
ServedDoc == LastResponse.page.string.doc

\* a key of the path is missing from the object that should hold it
RECURSIVE PathMissing(_, _)
PathMissing(x, keys) ==
    /\ keys # <<>>
    /\ x.t = "dict"
    /\ \/ Head(keys) \notin DOMAIN x.v
       \/ PathMissing(x.v[Head(keys)], Tail(keys))

\* C1: no exception leaves search_restaurants or get_restaurant_menu: a call
\* that has ended, whatever the fetch outcomes and the decoded document were,
\* has returned a str (serialized JSON or a message).
NoExceptionEscapes == pc = "done" => output.type = "str"

\* C1 witness: a menu call whose normalization raised a TypeError and that
\* returned the "Error parsing menu" message, after a retried attempt.
NoExceptionEscapesWitness ==
    /\ pc = "done"
    /\ tool = "get_restaurant_menu"
    /\ Len(responses) > 1
    /\ output.form = "message"
    /\ output.text = MSG_PARSE_MENU
    /\ output.detail = "TypeError"

\* C2: a response whose status is neither 200 nor 429 (403 among them) ends
\* _get_next_data at once with None: it is the last thing received, nothing
\* was slept after it, and no further GET is made; received first, it is
\* the only request of the call.
NonRecoverableStatusEndsCall ==
    \A i \in 1..Len(responses) :
        responses[i].status \notin {200, 429, 0} =>
            /\ i = Len(responses)
            /\ pc = "done"
            /\ json_data = None
            /\ Len(sleeps) = i - 1
            /\ attempt = i - 1

\* C2 witness: a 403 on the first attempt, the call ended after one request.
NonRecoverableStatusWitness ==
    /\ pc = "done"
    /\ Statuses = <<403>>
    /\ sleeps = <<>>
    /\ json_data = None

\* the first k responses were 429 and the next one a 200 with JSON text
RecoveredAfter(k) ==
    /\ Len(responses) = k + 1
    /\ \A i \in 1..k : responses[i].status = 429
    /\ responses[k + 1].status = 200
    /\ responses[k + 1].page.tag
    /\ responses[k + 1].page.string.t = "str"
    /\ responses[k + 1].page.string.json

\* C3 as stated: after k <= 2 responses 429 and then a 200 with valid JSON
\* text, _get_next_data returns that decoded document, which is not None,
\* having slept (i + 1) * 5 seconds after the 429 of attempt i.
RecoveryReturnsNonAbsentDocument ==
    \A k \in 0..2 :
        RecoveredAfter(k) =>
            /\ pc = "done"
            /\ json_data = ServedDoc
            /\ json_data # None
            /\ sleeps = [i \in 1..k |-> i * 5]

\* C3 amended: after k <= 2 responses 429 and then a 200 with valid JSON
\* text, _get_next_data returns exactly the decoded document (None, the
\* same value as Absent, when the text is the JSON literal null), having
\* slept (i + 1) * 5 seconds after the 429 of attempt i.
RecoveryReturnsDocument ==
    \A k \in 0..2 :
        RecoveredAfter(k) =>
            /\ pc = "done"
            /\ json_data = ServedDoc
            /\ (json_data = None <=> ServedDoc.t = "NoneType")
            /\ sleeps = [i \in 1..k |-> i * 5]

\* C3 witness: two 429 responses, then a 200 whose document is returned.
RecoveryWitness ==
    /\ RecoveredAfter(2)
    /\ pc = "done"
    /\ json_data.t = "dict"
    /\ sleeps = <<5, 10>>

\* C4: a call makes at most 3 GET requests and cannot go on for ever: while
\* it is in the loop fewer than 3 requests were made (each turn makes one),
\* and when all 3 attempts ended in a 429 or a transport exception
\* _get_next_data has returned None, nothing was raised and there is no 4th
\* request.
RetryBudget ==
    /\ Len(responses) <= 3
    /\ pc = "fetch" => Len(responses) < 3 /\ Len(responses) = attempt
    /\ (Len(responses) = 3 /\ \A i \in 1..3 : responses[i].status \in {429, 0}) =>
           /\ pc = "done"
           /\ json_data = None
           /\ output.type = "str"

\* C4 witness: a 429, a transport exception and a 429 used the budget up.
RetryBudgetWitness ==
    /\ pc = "done"
    /\ Statuses = <<429, 0, 429>>
    /\ sleeps = <<5, 2, 15>>
    /\ json_data = None

\* C5: when the fetched page's JSON decodes to a document that lacks a key
\* of props.initialState.home.feed.results.data (the document {} included),
\* search_restaurants returns the "No restaurants found" message.
ListingPathMissingIsEmptyResult ==
    (EndedOnJson /\ tool = "search_restaurants" /\ PathMissing(ServedDoc, PATH_FEED))
        => output.form = "message" /\ output.text = MSG_EMPTY

\* C6: when the fetched page's JSON decodes to a document that lacks a key
\* of props.initialState.menuPage.menu.metas.root, get_restaurant_menu
\* returns the "Menu structure not found" message.
MenuPathMissingIsStructureMessage ==
    (EndedOnJson /\ tool = "get_restaurant_menu" /\ PathMissing(ServedDoc, PATH_MENU))
        => output.form = "message" /\ output.text = MSG_STRUCTURE

\* C7: between calls no session is open: the session a call opened has been
\* closed by the time the call returns.
SessionReleased == pc \in {"idle", "done"} => open_sessions = 0

\* C10: a further GET follows only a 429 or a transport exception, and a 200
\* ends the call at once, with no sleep after it, whatever the page holds.
RetryOnlyOnStatusOrTransport ==
    \A i \in 1..Len(responses) :
        /\ i < Len(responses) => responses[i].status \in {429, 0}
        /\ responses[i].status = 200 =>
               /\ i = Len(responses)
               /\ pc = "done"
               /\ Len(sleeps) = i - 1

\* get_restaurant_menu has returned a serialized menu
MenuSucceeded ==
    pc = "done" /\ tool = "get_restaurant_menu" /\ output.form = "json"

\* the buckets of the returned menu, in their order
Buckets == output.detail

\* the source's item list and category list, as the loops run over them
SourceRoot == getitem_chain(json_data, PATH_MENU).v
SourceItems == iter(get(SourceRoot, "items", EmptyList).v).v
SourceCategories == iter(get(SourceRoot, "categories", EmptyList).v).v

\* the names of the categories, among cats, whose id is id
NamesOf(cats, id) ==
    {cats[j].v["name"] : j \in {c \in 1..Len(cats) : cats[c].v["id"] = id}}

\* the bucket an item belongs to as C8 states it: "Other" when the item has
\* no categoryId or no category has that id
StatedBucketNames(cats, item) ==
    IF "categoryId" \in DOMAIN item.v
    THEN (IF NamesOf(cats, item.v["categoryId"]) # {}
          THEN NamesOf(cats, item.v["categoryId"])
          ELSE {Str("Other")})
    ELSE {Str("Other")}

\* the same with a missing categoryId looked up as None
LookedUpBucketNames(cats, item) ==
    IF "categoryId" \in DOMAIN item.v
    THEN (IF NamesOf(cats, item.v["categoryId"]) # {}
          THEN NamesOf(cats, item.v["categoryId"])
          ELSE {Str("Other")})
    ELSE (IF NamesOf(cats, None) # {} THEN NamesOf(cats, None) ELSE {Str("Other")})

\* the buckets are an order-preserving partition of the source items, names
\* being the sequence of the sets of bucket names each item may go to: each
\* item belongs to one bucket, a bucket holds the records of its items in
\* source order, and buckets are in the order of their first items
Partitioned(items, buckets, names) ==
    LET home == [i \in 1..Len(items) |->
                    {b \in 1..Len(buckets) : buckets[b].name \in names[i]}]
        first_item == [b \in 1..Len(buckets) |->
                    CHOOSE i \in 1..Len(items) :
                        /\ b \in home[i]
                        /\ \A j \in 1..(i - 1) : b \notin home[j]]
    IN /\ \A i \in 1..Len(items) : Cardinality(home[i]) = 1
       /\ \A b \in 1..Len(buckets) :
              LET members == SelectSeq([i \in 1..Len(items) |-> <<i, items[i]>>],
                                       LAMBDA m : b \in home[m[1]])
              IN /\ members # <<>>
                 /\ buckets[b].items =
                        [k \in 1..Len(members) |-> menu_record(members[k][2]).v]
       /\ \A b, c \in 1..Len(buckets) : b < c => first_item[b] < first_item[c]

RECURSIVE TotalSize(_)
TotalSize(buckets) ==
    IF buckets = <<>> THEN 0 ELSE Len(Head(buckets).items) + TotalSize(Tail(buckets))

NoUsablePrice(item) ==
    \/ "price" \notin DOMAIN item.v
    \/ /\ item.v["price"].t = "dict"
       /\ \/ "formatted" \notin DOMAIN item.v["price"].v
          \/ item.v["price"].v["formatted"].t = "NoneType"

\* C9: in a returned menu every record's price is a string, and it is "?"
\* for an item with no price, no formatted key, or a null formatted value.
PriceIsAlwaysAString ==
    MenuSucceeded =>
        \A b \in 1..Len(Buckets) : \A k \in 1..Len(Buckets[b].items) :
            /\ Buckets[b].items[k].price.t = "str"
            /\ \A i \in 1..Len(SourceItems) :
                   (/\ NoUsablePrice(SourceItems[i])
                    /\ Buckets[b].items[k].item = SourceItems[i].v["name"])
                       => Buckets[b].items[k].price = Str("?")

====
